---- MODULE Spec2Model ----
(***************************************************************************)
(* reqwest-auth: AuthorizationHeaderMiddleware (src/src/lib.rs).           *)
(*                                                                         *)
(* The middleware holds one shared handle `ts` to a TokenSource.  Each     *)
(* call of handle(req, extensions, next) is a three step pipeline with two *)
(* suspension points (the two .await of lib.rs):                           *)
(*                                                                         *)
(*    self.ts.token().await        -- fetch, mapped error on failure       *)
(*    HeaderValue::from_str + req.headers_mut().insert(AUTHORIZATION, ..)  *)
(*    next.run(req, extensions).await                                      *)
(*                                                                         *)
(* Several calls of handle run concurrently on the same middleware.  The   *)
(* TokenSource and the rest of the chain (next) are the environment: the   *)
(* TokenSource answers each fetch with any credential string or any error, *)
(* next answers with any response or any error.                            *)
(*                                                                         *)
(* A credential (a Rust String) is the sequence of its UTF-8 bytes; a      *)
(* HeaderValue is the sequence of its bytes.  A header map is a multimap:  *)
(* header name -> sequence of values.                                      *)
(***************************************************************************)
EXTENDS Naturals, Sequences, FiniteSets, TLC

\* Number of calls of handle issued on the one middleware (concurrently or not).
MaxCalls == 2

Calls == 1..MaxCalls

\* reqwest::header::AUTHORIZATION and one header the middleware has no business with.
AUTHORIZATION == "authorization"
ACCEPT == "accept"
HeaderNames == {AUTHORIZATION, ACCEPT}

\* Credential strings the TokenSource may return, as UTF-8 bytes:
\*   ""  "B1"  "B2"  "\t"  "e-acute" (C3 A9)  "B\n"  DEL
Credentials ==
  { <<>>, <<66, 49>>, <<66, 50>>, <<9>>, <<195, 169>>, <<66, 10>>, <<127>> }

\* Messages (e.to_string()) of the errors the TokenSource may return.  A source
\* is free to report any text, the text of a header parse failure included.
SourceErrors ==
  { "token endpoint unreachable",
    "Invalid auth token value: failed to parse header value" }

\* Display of http::header::InvalidHeaderValue, the {e} of lib.rs line 124.
InvalidHeaderValueDisplay == "failed to parse header value"

\* What TokenSource::token() resolves to: Ok(String) or Err(Box<dyn Error>).
SourceResults ==
  { [ok |-> TRUE, token |-> t, err |-> ""] : t \in Credentials }
    \cup { [ok |-> FALSE, token |-> <<>>, err |-> e] : e \in SourceErrors }

\* What next.run() resolves to: Ok(Response) or Err(reqwest_middleware::Error).
NextResults ==
  { [kind |-> "Response", detail |-> "200 OK"],
    [kind |-> "Reqwest", detail |-> "connection refused"],
    [kind |-> "Middleware", detail |-> "downstream middleware failed"] }

\* Requests and chain contexts handed to handle by the chain driver: no prior
\* Authorization value, one, several.
Inputs ==
  { [req |-> [method |-> "GET", url |-> "https://a/x", body |-> "",
              headers |-> [h \in HeaderNames |->
                             IF h = ACCEPT THEN << <<42>> >> ELSE << >>]],
     ext |-> {}],
    [req |-> [method |-> "POST", url |-> "https://a/y", body |-> "payload",
              headers |-> [h \in HeaderNames |->
                             IF h = ACCEPT THEN << >> ELSE << <<66, 48>> >>]],
     ext |-> {"trace-id"}],
    [req |-> [method |-> "GET", url |-> "https://a/z", body |-> "",
              headers |-> [h \in HeaderNames |->
                             IF h = ACCEPT THEN << <<42>> >>
                             ELSE << <<66, 48>>, <<66, 49>> >>]],
     ext |-> {"trace-id"}] }

\* The TokenSource the middleware is built from (From<Arc<dyn TokenSource>>).
TsHandle == "token-source"

VARIABLES
  ts,          \* AuthorizationHeaderMiddleware.ts
  pc,          \* per call: position in handle
  req,         \* per call: the `mut req: Request` of handle
  ext,         \* per call: the Extensions behind `extensions: &mut Extensions`
  auth_token,  \* per call: the local `auth_token` ({} until bound)
  result,      \* per call: what handle returned ({} until it returns)
  reqIn,       \* per call: the request as handle received it
  extIn,       \* per call: the Extensions as handle received them
  fetches,     \* TokenSource side: number of token() calls made by each call
  returned,    \* TokenSource side: what token() resolved to for each call
  nextCalls,   \* chain side: number of next.run() invocations by each call
  fwd,         \* chain side: the (request, extensions) next.run() received
  nextResult   \* chain side: what next.run() resolved to

vars == << ts, pc, req, ext, auth_token, result, reqIn, extIn,
           fetches, returned, nextCalls, fwd, nextResult >>

----------------------------------------------------------------------------
\* http::header::value::is_valid, the byte test of HeaderValue::from_str.
IsValidByteNoControlCheck(b) == TRUE

IsValidByte(b) == (b >= 32 /\ b # 127) \/ b = 9

\* HeaderValue::from_str: the bytes of the string, or InvalidHeaderValue.
HeaderValueFromStr(s) ==
  IF \A i \in 1..Len(s) : IsValidByte(s[i])
    THEN [ok |-> TRUE, value |-> s, err |-> ""]
    ELSE [ok |-> FALSE, value |-> <<>>, err |-> InvalidHeaderValueDisplay]

\* HeaderMap::insert: the key holds the new value alone afterwards.
HeaderInsertAppend(headers, name, value) ==
  [headers EXCEPT ![name] = Append(@, value)]

HeaderInsert(headers, name, value) ==
  [headers EXCEPT ![name] = << value >>]

\* .map_err(|e| Error::Middleware(anyhow!(e.to_string())))
FetchErrorGeneric(e) == [kind |-> "Middleware", detail |-> "token error"]

FetchError(e) == [kind |-> "Middleware", detail |-> e]

\* .map_err(|e| Error::Middleware(anyhow!(format!("Invalid auth token value: {e}"))))
FormatError(e) ==
  [kind |-> "Middleware", detail |-> "Invalid auth token value: " \o e]

\* The tail expression `next.run(req, extensions).await` is handle's value.
HandleReturnWrapped(r) ==
  IF r.kind = "Response" THEN r
  ELSE [kind |-> "Middleware", detail |-> "Downstream error: " \o r.detail]

HandleReturn(r) == r

----------------------------------------------------------------------------
Init ==
  /\ ts = TsHandle
  /\ pc = [c \in Calls |-> "idle"]
  /\ req = [c \in Calls |-> {}]
  /\ ext = [c \in Calls |-> {}]
  /\ auth_token = [c \in Calls |-> {}]
  /\ result = [c \in Calls |-> {}]
  /\ reqIn = [c \in Calls |-> {}]
  /\ extIn = [c \in Calls |-> {}]
  /\ fetches = [c \in Calls |-> 0]
  /\ returned = [c \in Calls |-> {}]
  /\ nextCalls = [c \in Calls |-> 0]
  /\ fwd = [c \in Calls |-> {}]
  /\ nextResult = [c \in Calls |-> {}]

\* The one element of a singleton.
The(S) == CHOOSE x \in S : TRUE

\* The chain driver calls handle(req, extensions, next): the c-th call.
Start(c) ==
  /\ pc[c] = "idle"
  /\ \A d \in Calls : d < c => pc[d] # "idle"
  /\ \E in \in Inputs :
       /\ req' = [req EXCEPT ![c] = {in.req}]
       /\ reqIn' = [reqIn EXCEPT ![c] = {in.req}]
       /\ ext' = [ext EXCEPT ![c] = in.ext]
       /\ extIn' = [extIn EXCEPT ![c] = in.ext]
  /\ pc' = [pc EXCEPT ![c] = "called"]
  /\ UNCHANGED << ts, auth_token, result, fetches, returned, nextCalls, fwd,
                  nextResult >>

\* self.ts.token() is called and awaited.
TokenCallLocked(c) ==
  /\ pc[c] = "called"
  /\ \A d \in Calls : pc[d] # "awaitToken"
  /\ fetches' = [fetches EXCEPT ![c] = @ + 1]
  /\ pc' = [pc EXCEPT ![c] = "awaitToken"]
  /\ UNCHANGED << ts, req, ext, auth_token, result, reqIn, extIn, returned,
                  nextCalls, fwd, nextResult >>

TokenCall(c) ==
  /\ pc[c] = "called"
  /\ fetches' = [fetches EXCEPT ![c] = @ + 1]
  /\ pc' = [pc EXCEPT ![c] = "awaitToken"]
  /\ UNCHANGED << ts, req, ext, auth_token, result, reqIn, extIn, returned,
                  nextCalls, fwd, nextResult >>

\* The fetch resolves: `?` returns the mapped error, or auth_token is bound.
TokenReturnFallback(c) ==
  /\ pc[c] = "awaitToken"
  /\ \E r \in SourceResults :
       /\ returned' = [returned EXCEPT ![c] = {r}]
       /\ auth_token' = [auth_token EXCEPT ![c] = {r.token}]
  /\ pc' = [pc EXCEPT ![c] = "fetched"]
  /\ UNCHANGED << ts, req, ext, result, reqIn, extIn, fetches, nextCalls, fwd,
                  nextResult >>

TokenReturnCached(c) ==
  /\ pc[c] = "awaitToken"
  /\ \E r \in SourceResults :
       /\ returned' = [returned EXCEPT ![c] = {r}]
       /\ IF r.ok
            THEN /\ auth_token' =
                      [auth_token EXCEPT ![c] =
                         IF c > 1 /\ auth_token[c - 1] # {}
                           THEN auth_token[c - 1] ELSE {r.token}]
                 /\ pc' = [pc EXCEPT ![c] = "fetched"]
                 /\ UNCHANGED result
            ELSE /\ result' = [result EXCEPT ![c] = {FetchError(r.err)}]
                 /\ pc' = [pc EXCEPT ![c] = "done"]
                 /\ UNCHANGED auth_token
  /\ UNCHANGED << ts, req, ext, reqIn, extIn, fetches, nextCalls, fwd,
                  nextResult >>

TokenReturn(c) ==
  /\ pc[c] = "awaitToken"
  /\ \E r \in SourceResults :
       /\ returned' = [returned EXCEPT ![c] = {r}]
       /\ IF r.ok
            THEN /\ auth_token' = [auth_token EXCEPT ![c] = {r.token}]
                 /\ pc' = [pc EXCEPT ![c] = "fetched"]
                 /\ UNCHANGED result
            ELSE /\ result' = [result EXCEPT ![c] = {FetchError(r.err)}]
                 /\ pc' = [pc EXCEPT ![c] = "done"]
                 /\ UNCHANGED auth_token
  /\ UNCHANGED << ts, req, ext, reqIn, extIn, fetches, nextCalls, fwd,
                  nextResult >>

\* The token a call other than c bound last, if any: a header value kept in
\* the middleware instead of in the call.
SharedToken(c) ==
  LET others == { d \in Calls : d # c /\ auth_token[d] # {} }
  IN  IF others = {} THEN auth_token[c]
      ELSE auth_token[CHOOSE d \in others : \A e \in others : e <= d]

\* HeaderValue::from_str(auth_token.as_str()) then headers_mut().insert(..),
\* or `?` returns the mapped error.
SetHeaderShared(c) ==
  /\ pc[c] = "fetched"
  /\ LET hv == HeaderValueFromStr(The(SharedToken(c)))
     IN  IF hv.ok
           THEN /\ req' = [req EXCEPT ![c] =
                     {[The(@) EXCEPT !.headers =
                        HeaderInsert(@, AUTHORIZATION, hv.value)]}]
                /\ pc' = [pc EXCEPT ![c] = "applied"]
                /\ UNCHANGED result
           ELSE /\ result' = [result EXCEPT ![c] = {FormatError(hv.err)}]
                /\ pc' = [pc EXCEPT ![c] = "done"]
                /\ UNCHANGED req
  /\ UNCHANGED << ts, ext, auth_token, reqIn, extIn, fetches, returned,
                  nextCalls, fwd, nextResult >>

SetHeaderIgnoreError(c) ==
  /\ pc[c] = "fetched"
  /\ LET hv == HeaderValueFromStr(The(auth_token[c]))
     IN  IF hv.ok
           THEN req' = [req EXCEPT ![c] =
                     {[The(@) EXCEPT !.headers =
                        HeaderInsert(@, AUTHORIZATION, hv.value)]}]
           ELSE UNCHANGED req
  /\ pc' = [pc EXCEPT ![c] = "applied"]
  /\ UNCHANGED << ts, ext, auth_token, result, reqIn, extIn, fetches, returned,
                  nextCalls, fwd, nextResult >>

SetHeader(c) ==
  /\ pc[c] = "fetched"
  /\ LET hv == HeaderValueFromStr(The(auth_token[c]))
     IN  IF hv.ok
           THEN /\ req' = [req EXCEPT ![c] =
                     {[The(@) EXCEPT !.headers =
                        HeaderInsert(@, AUTHORIZATION, hv.value)]}]
                /\ pc' = [pc EXCEPT ![c] = "applied"]
                /\ UNCHANGED result
           ELSE /\ result' = [result EXCEPT ![c] = {FormatError(hv.err)}]
                /\ pc' = [pc EXCEPT ![c] = "done"]
                /\ UNCHANGED req
  /\ UNCHANGED << ts, ext, auth_token, reqIn, extIn, fetches, returned,
                  nextCalls, fwd, nextResult >>

\* next.run(req, extensions) is called and awaited.
NextRunFreshContext(c) ==
  /\ pc[c] = "applied"
  /\ fwd' = [fwd EXCEPT ![c] =
       {[req |-> [The(req[c]) EXCEPT !.method = "GET", !.body = ""],
         ext |-> {}]}]
  /\ nextCalls' = [nextCalls EXCEPT ![c] = @ + 1]
  /\ pc' = [pc EXCEPT ![c] = "awaitNext"]
  /\ UNCHANGED << ts, req, ext, auth_token, result, reqIn, extIn, fetches,
                  returned, nextResult >>

NextRun(c) ==
  /\ pc[c] = "applied"
  /\ fwd' = [fwd EXCEPT ![c] = {[req |-> The(req[c]), ext |-> ext[c]]}]
  /\ nextCalls' = [nextCalls EXCEPT ![c] = @ + 1]
  /\ pc' = [pc EXCEPT ![c] = "awaitNext"]
  /\ UNCHANGED << ts, req, ext, auth_token, result, reqIn, extIn, fetches,
                  returned, nextResult >>

\* next.run() resolves and handle returns its value.
NextReturn(c) ==
  /\ pc[c] = "awaitNext"
  /\ \E r \in NextResults :
       /\ nextResult' = [nextResult EXCEPT ![c] = {r}]
       /\ result' = [result EXCEPT ![c] = {HandleReturn(r)}]
  /\ pc' = [pc EXCEPT ![c] = "done"]
  /\ UNCHANGED << ts, req, ext, auth_token, reqIn, extIn, fetches, returned,
                  nextCalls, fwd >>

Next ==
  \E c \in Calls :
    \/ Start(c)
    \/ TokenCall(c)
    \/ TokenReturn(c)
    \/ SetHeader(c)
    \/ NextRun(c)
    \/ NextReturn(c)

Spec == Init /\ [][Next]_vars

----------------------------------------------------------------------------
\* What the TokenSource answered to call c, and what next.run() was handed.
Tok(c) == The(returned[c]).token
FetchOk(c) == returned[c] # {} /\ The(returned[c]).ok
FetchFailed(c) == returned[c] # {} /\ ~The(returned[c]).ok
FwdAuth(c) == The(fwd[c]).req.headers[AUTHORIZATION]

\* A byte no HTTP header value may hold: a control character other than tab.
IllegalHeaderByte(b) == (b < 32 /\ b # 9) \/ b = 127
Unencodable(s) == \E i \in 1..Len(s) : IllegalHeaderByte(s[i])

\* The one error text handle produces for an unencodable credential.
InvalidTokenMessage == "Invalid auth token value: " \o InvalidHeaderValueDisplay

\* C1: the request handed to next carries exactly one Authorization value,
\* and it is the credential the TokenSource returned to this same call,
\* whatever Authorization values (none, one, several) the request had before;
\* every encodable credential, the empty one included, is passed as it is.
C1_HeaderOverwrite ==
  \A c \in Calls :
    /\ fwd[c] # {} =>
         /\ FetchOk(c)
         /\ Len(FwdAuth(c)) = 1
         /\ FwdAuth(c)[1] = Tok(c)
    /\ (pc[c] \in {"applied", "awaitNext"} /\ FetchOk(c)) =>
         The(req[c]).headers[AUTHORIZATION] = << Tok(c) >>
    /\ (FetchOk(c) /\ ~Unencodable(Tok(c)) /\ pc[c] = "done") => fwd[c] # {}

C1_Witness ==
  \E c \in Calls :
    /\ fwd[c] # {}
    /\ Len(The(reqIn[c]).headers[AUTHORIZATION]) = 2
    /\ Tok(c) = <<>>
    /\ FwdAuth(c) = << <<>> >>

\* C2: when the fetch returns an error, next is never invoked, the request is
\* not mutated, no credential is substituted, the fetch is not retried, and
\* handle returns a Middleware error whose message is the source error's.
C2_FetchFailureShortCircuits ==
  \A c \in Calls :
    FetchFailed(c) =>
      /\ pc[c] = "done"
      /\ nextCalls[c] = 0
      /\ fwd[c] = {}
      /\ req[c] = reqIn[c]
      /\ auth_token[c] = {}
      /\ fetches[c] = 1
      /\ result[c] = {[kind |-> "Middleware", detail |-> The(returned[c]).err]}

C2_Witness ==
  \E c \in Calls :
    /\ FetchFailed(c)
    /\ The(returned[c]).err = "token endpoint unreachable"
    /\ The(reqIn[c]).headers[AUTHORIZATION] # << >>
    /\ result[c] # {}

\* C3: a fetched credential holding a byte that is illegal in a header value
\* (a newline, DEL) never reaches next, and handle returns the invalid
\* credential error.
C3_InvalidTextRejected ==
  \A c \in Calls :
    (FetchOk(c) /\ Unencodable(Tok(c))) =>
      /\ pc[c] \in {"fetched", "done"}
      /\ nextCalls[c] = 0
      /\ fwd[c] = {}
      /\ pc[c] = "done" =>
           result[c] = {[kind |-> "Middleware", detail |-> InvalidTokenMessage]}

C3_Witness ==
  \E c \in Calls :
    /\ FetchOk(c)
    /\ Tok(c) = <<66, 10>>
    /\ pc[c] = "done"
    /\ result[c] = {[kind |-> "Middleware", detail |-> InvalidTokenMessage]}

\* C4: whenever handle invoked next, what handle returns is what next
\* returned, a response or an error, unchanged.
C4_DownstreamPassthrough ==
  \A c \in Calls :
    (nextCalls[c] > 0 /\ pc[c] = "done") =>
      /\ nextResult[c] # {}
      /\ result[c] = nextResult[c]

C4_Witness ==
  \E c \in Calls :
    /\ pc[c] = "done"
    /\ nextResult[c] = {[kind |-> "Reqwest", detail |-> "connection refused"]}
    /\ result[c] = nextResult[c]

\* C5: no credential is cached across calls: every call that got past its
\* fetch made exactly one fetch of its own, the token it holds is the one that
\* fetch returned, and the k-th forwarded request carries the value returned to
\* the k-th call, also when an earlier call failed.
C5_PerCallFreshness ==
  \A c \in Calls :
    /\ pc[c] \in {"idle", "called"} => fetches[c] = 0 /\ returned[c] = {}
    /\ pc[c] \notin {"idle", "called"} => fetches[c] = 1
    /\ auth_token[c] # {} => FetchOk(c) /\ auth_token[c] = {Tok(c)}
    /\ fwd[c] # {} => FwdAuth(c) = << Tok(c) >>

C5_Witness ==
  /\ fwd[1] # {} /\ fwd[2] # {}
  /\ Tok(1) = <<66, 49>> /\ Tok(2) = <<66, 50>>
  /\ FwdAuth(1) = << <<66, 49>> >>
  /\ FwdAuth(2) = << <<66, 50>> >>

\* C6: among concurrent calls no forwarded request carries the value fetched
\* by another call: a request carries another call's value only when its own
\* fetch returned that very value.
C6_ConcurrentIndependence ==
  \A c, d \in Calls :
    (c # d /\ fwd[c] # {} /\ FetchOk(d)) =>
      (FwdAuth(c) = << Tok(d) >> => Tok(c) = Tok(d))

C6_Witness ==
  /\ pc[1] = "awaitNext" /\ pc[2] = "awaitNext"
  /\ Tok(1) # Tok(2)
  /\ FwdAuth(1) = << Tok(1) >>
  /\ FwdAuth(2) = << Tok(2) >>

\* A call that ended in the fetch error, in the format error.
EndedFetchFailed(c) == pc[c] = "done" /\ FetchFailed(c)
EndedFormatFailed(c) == pc[c] = "done" /\ FetchOk(c) /\ nextCalls[c] = 0

\* C7 as stated: for every source error and every unencodable credential the
\* error returned for the failed fetch differs from the error returned for
\* the unencodable credential.
C7_Original ==
  \A c, d \in Calls :
    (EndedFetchFailed(c) /\ EndedFormatFailed(d)) => result[c] # result[d]

\* C7 amended: both errors are Middleware errors told apart by message only:
\* the failed fetch carries the source error's message, the unencodable
\* credential carries "Invalid auth token value: " followed by the format
\* error's text, and the two values differ exactly when the source error's
\* message is not that text.
C7_ErrorMessages ==
  \A c, d \in Calls :
    /\ EndedFetchFailed(c) =>
         result[c] = {[kind |-> "Middleware", detail |-> The(returned[c]).err]}
    /\ EndedFormatFailed(d) =>
         result[d] = {[kind |-> "Middleware", detail |-> InvalidTokenMessage]}
    /\ (EndedFetchFailed(c) /\ EndedFormatFailed(d)) =>
         (result[c] = result[d] <=> The(returned[c]).err = InvalidTokenMessage)

C7_Witness ==
  \E c, d \in Calls :
    /\ EndedFetchFailed(c) /\ EndedFormatFailed(d)
    /\ The(returned[c]).err = "token endpoint unreachable"
    /\ result[c] # result[d]

\* C8: handle changes nothing but the Authorization header: next receives the
\* method, URL, body and other headers handle received and the same chain
\* context, which is never written, and the middleware's source handle stays.
C8_Frame ==
  /\ ts = TsHandle
  /\ \A c \in Calls :
       /\ ext[c] = extIn[c]
       /\ req[c] # {} =>
            /\ The(req[c]).method = The(reqIn[c]).method
            /\ The(req[c]).url = The(reqIn[c]).url
            /\ The(req[c]).body = The(reqIn[c]).body
            /\ \A h \in HeaderNames \ {AUTHORIZATION} :
                 The(req[c]).headers[h] = The(reqIn[c]).headers[h]
       /\ fwd[c] # {} =>
            /\ The(fwd[c]).req.method = The(reqIn[c]).method
            /\ The(fwd[c]).req.url = The(reqIn[c]).url
            /\ The(fwd[c]).req.body = The(reqIn[c]).body
            /\ \A h \in HeaderNames \ {AUTHORIZATION} :
                 The(fwd[c]).req.headers[h] = The(reqIn[c]).headers[h]
            /\ The(fwd[c]).ext = extIn[c]

C8_Witness ==
  \E c \in Calls :
    /\ fwd[c] # {}
    /\ The(fwd[c]).req.method = "POST"
    /\ The(fwd[c]).req.body = "payload"
    /\ The(fwd[c]).ext = {"trace-id"}
    /\ The(fwd[c]).req.headers[AUTHORIZATION] # The(reqIn[c]).headers[AUTHORIZATION]

\* C9: fetch, apply, forward in this order: no request is forwarded while its
\* fetch is pending or before its header is written, next is invoked at most
\* once, and exactly once in a call where fetch and apply both succeeded.
C9_StepOrder ==
  \A c \in Calls :
    /\ nextCalls[c] <= 1
    /\ (nextCalls[c] = 0) <=> (fwd[c] = {})
    /\ pc[c] \in {"idle", "called", "awaitToken", "fetched", "applied"} =>
         nextCalls[c] = 0
    /\ nextCalls[c] = 1 =>
         /\ FetchOk(c)
         /\ pc[c] \in {"awaitNext", "done"}
         /\ The(req[c]).headers[AUTHORIZATION] = << Tok(c) >>
    /\ (pc[c] = "done" /\ FetchOk(c) /\ HeaderValueFromStr(Tok(c)).ok) =>
         nextCalls[c] = 1

C9_Witness ==
  \E c \in Calls :
    /\ pc[c] = "done"
    /\ nextCalls[c] = 1
    /\ The(reqIn[c]).headers[AUTHORIZATION] = << >>
    /\ The(req[c]).headers[AUTHORIZATION] = << Tok(c) >>

\* C10: a call suspended in a fetch that has not completed never prevents
\* another call from taking its next step: issuing its own fetch, receiving
\* its token, setting its header, invoking next, returning.
C10_NoSerialisation ==
  \A c, d \in Calls :
    (c # d /\ pc[c] = "awaitToken") =>
      /\ pc[d] = "called" => ENABLED TokenCall(d)
      /\ pc[d] = "awaitToken" => ENABLED TokenReturn(d)
      /\ pc[d] = "fetched" => ENABLED SetHeader(d)
      /\ pc[d] = "applied" => ENABLED NextRun(d)
      /\ pc[d] = "awaitNext" => ENABLED NextReturn(d)

C10_Witness ==
  /\ pc[1] = "awaitToken"
  /\ pc[2] = "done"
  /\ result[2] = {[kind |-> "Response", detail |-> "200 OK"]}

====
